---- MODULE Spec2Model ----
(***************************************************************************)
(* A model of the GraphQL resolvers of the Notion-style multi-tenant       *)
(* record store (graphql/resolvers.js) over its Mongoose collections       *)
(* DatabaseDefinition, Record and ActivityLog.                             *)
(*                                                                         *)
(* Every resolver is an operator Query_x / Mutation_x from the store S it  *)
(* runs against and its arguments to its outcome and the store it leaves;  *)
(* the action of the same name as the resolver applies it to the state.    *)
(* The timestamps createdAt and updatedAt are not modelled.                *)
(***************************************************************************)
EXTENDS Integers, Sequences, FiniteSets, TLC

VARIABLES
    databases,      \* the DatabaseDefinition collection, in insertion order
    records,        \* the Record collection, in insertion order
    logs,           \* the ActivityLog collection, in insertion order
    nextFieldId,    \* the next _id Mongoose gives to a `fields` subdocument
    reply,          \* the page a paging client last got from Query.records
    inflight        \* the createField/updateField calls between their awaits

vars == <<databases, records, logs, nextFieldId, reply, inflight>>

(***************************************************************************)
(* Bounds of the model.                                                    *)
(***************************************************************************)
MaxDbs == 2
MaxRecords == 2
MaxFields == 2
MaxLogs == 3
MaxPageRecords == 25

(***************************************************************************)
(* The User collection (models/User.js). signup and role changes are not   *)
(* part of the model, so the collection is fixed: tenant 1 has one user of *)
(* every role, tenant 2 has an Admin.                                      *)
(***************************************************************************)
Users ==
    { [_id |-> 1, tenantId |-> 1, role |-> "Admin"],
      [_id |-> 2, tenantId |-> 1, role |-> "Editor"],
      [_id |-> 3, tenantId |-> 1, role |-> "Viewer"],
      [_id |-> 4, tenantId |-> 2, role |-> "Admin"] }

\* context.user of a request that carries no valid token (`return {}`).
NoUser == [_id |-> 0, tenantId |-> 0, role |-> "none"]

\* The credentials a request can carry in its authorization header: none, a
\* token jwt.verify rejects (bad signature, or expired), or a token it
\* accepts. login and signup sign {id, role, tenantId} into the token; the
\* claims may be stale (another role, another tenant), and id 5 is a user
\* that has been removed from the collection.
Tokens ==
    {[kind |-> k, id |-> 0, role |-> "none", tenantId |-> 0] :
        k \in {"missing", "invalid", "expired"}}
    \cup {[kind |-> "valid", id |-> i, role |-> r, tenantId |-> t] :
            i \in 1..5, r \in {"Admin", "Viewer"}, t \in 1..2}

\* jwt.verify(token, JWT_SECRET): the decoded payload, or <<>> when it throws.
JwtVerify(token) ==
    IF token.kind = "valid"
    THEN <<[id |-> token.id, role |-> token.role, tenantId |-> token.tenantId]>>
    ELSE <<>>

\* User.findById(id): the stored user, or <<>> for null.
UserFindById(id) ==
    IF \E u \in Users : u._id = id
    THEN <<CHOOSE u \in Users : u._id = id>>
    ELSE <<>>

\* Context that takes role and tenant from the claims of the token.
Context_TrustsToken(token) ==
    IF token.kind = "missing" THEN [err |-> "none", context |-> [user |-> NoUser]]
    ELSE IF JwtVerify(token) = <<>>
    THEN [err |-> "none", context |-> [user |-> NoUser]]
    ELSE [err |-> "none",
          context |-> [user |-> [_id |-> JwtVerify(token)[1].id,
                                 tenantId |-> JwtVerify(token)[1].tenantId,
                                 role |-> JwtVerify(token)[1].role]]]

\* The context function of the ApolloServer: err is the error the request
\* fails with ("none": every throw is caught), context is what the resolver
\* gets. `{}` and `{ user: null }` are both the context without a user.
Context(token) ==
    IF token.kind = "missing" THEN [err |-> "none", context |-> [user |-> NoUser]]
    ELSE LET decoded == JwtVerify(token) IN
         IF decoded = <<>>
         THEN [err |-> "none", context |-> [user |-> NoUser]]
         ELSE LET currentUser == UserFindById(decoded[1].id) IN
              [err |-> "none",
               context |-> [user |-> IF currentUser = <<>> THEN NoUser
                                     ELSE currentUser[1]]]

\* The contexts the ApolloServer context function hands to a resolver.
Contexts == {Context(token).context : token \in Tokens}

\* `!context.user`
NotLoggedIn(context) == context.user = NoUser

\* NotAdmin with the Editor let through, as in the record mutations.
NotAdmin_EditorAllowed(context) == context.user.role \notin {"Editor", "Admin"}

\* `context.user.role !== "Admin"`
NotAdmin(context) == context.user.role # "Admin"

\* `!["Editor", "Admin"].includes(context.user.role)`
NotEditorOrAdmin(context) == context.user.role \notin {"Editor", "Admin"}

(***************************************************************************)
(* Strings. Names and values come from small sets, and the string          *)
(* functions the code uses are tabulated on them.                          *)
(***************************************************************************)
DbNames == {" ", "A", "a"}

FieldNames == {"Email", "email", "Name"}

\* The keys of a `values` input: a field name, and a name no field has.
ValueKeys == {"Email", "extra"}

\* The values stored under a key: one-character strings.
Values == {"a", "A", "b"}

\* String.prototype.trim
Trim(s) == IF s = " " THEN "" ELSE s

\* String.prototype.toLowerCase
ToLowerCase(s) ==
    CASE s = "Email" -> "email"
      [] s = "Name" -> "name"
      [] s = "A" -> "a"
      [] s = "DESC" -> "desc"
      [] s = "Desc" -> "desc"
      [] s = "ASC" -> "asc"
      [] OTHER -> s

(***************************************************************************)
(* Collections are sequences of documents in insertion order. The _id of a *)
(* database or a record is the position at which it was inserted: no       *)
(* resolver removes a document.                                            *)
(***************************************************************************)
Range(s) == {s[i] : i \in 1..Len(s)}

\* Model.findOne(query): the first document satisfying the query, as a
\* sequence of length 1, or <<>> for null.
FindOne(coll, Q(_)) ==
    LET hits == SelectSeq(coll, Q) IN
    IF hits = <<>> THEN <<>> ELSE <<hits[1]>>

\* The collection with document d written back (document.save(), or the
\* update of findOneAndUpdate).
Replace(coll, d) ==
    [i \in 1..Len(coll) |-> IF coll[i]._id = d._id THEN d ELSE coll[i]]

\* The store the resolvers run against.
Store ==
    [databases |-> databases, records |-> records, logs |-> logs,
     nextFieldId |-> nextFieldId]

(***************************************************************************)
(* Outcomes. err is the class of the thrown error ("none" when the         *)
(* resolver returns), msg identifies the throw site, ret is the sequence   *)
(* of returned documents (<<>> for null, for true and for an empty list),  *)
(* store is the store the call leaves.                                     *)
(***************************************************************************)
Throw(S, err, msg) == [err |-> err, msg |-> msg, ret |-> <<>>, store |-> S]

Return(S, ret) == [err |-> "none", msg |-> "ok", ret |-> ret, store |-> S]

(***************************************************************************)
(* ActivityLog.create({tenantId, userId, action, details})                 *)
(***************************************************************************)
LogEntry(context, action, details) ==
    [tenantId |-> context.user.tenantId, userId |-> context.user._id,
     action |-> action, details |-> details]

ActivityLogCreate(S, context, action, details) ==
    [S EXCEPT !.logs = Append(@, LogEntry(context, action, details))]

\* The end of every mutation: `await ActivityLog.create(...)` and the return.
\* When the store rejects the insert (auditFails) the awaiting resolver
\* throws, after its primary write.
LogAndReturn(S, context, action, details, ret, auditFails) ==
    IF auditFails
    THEN [err |-> "StoreError", msg |-> "audit_failed", ret |-> <<>>, store |-> S]
    ELSE Return(ActivityLogCreate(S, context, action, details), ret)

(***************************************************************************)
(* Mutation.createDatabase                                                 *)
(***************************************************************************)
\* DuplicateKey of an index that leaves out the soft-deleted databases.
DuplicateKey_LiveOnly(S, id, tenantId, name) ==
    \E d \in Range(S.databases) :
        d._id # id /\ d.tenantId = tenantId /\ d.name = name /\ ~d.isDeleted

\* The unique index {tenantId: 1, name: 1} of databaseDefinition.js: does
\* writing `name` to document `id` of `tenantId` raise error code 11000?
DuplicateKey(S, id, tenantId, name) ==
    \E d \in Range(S.databases) :
        d._id # id /\ d.tenantId = tenantId /\ d.name = name

Mutation_createDatabase(S, context, name, auditFails) ==
    LET newDatabase == [_id |-> Len(S.databases) + 1, name |-> Trim(name),
                        tenantId |-> context.user.tenantId, fields |-> <<>>,
                        isDeleted |-> FALSE]
        saved == [S EXCEPT !.databases = Append(@, newDatabase)]
        logged == LogAndReturn(saved, context, "CREATE_DATABASE",
                    [databaseId |-> newDatabase._id,
                     databaseName |-> newDatabase.name],
                    <<newDatabase>>, auditFails)
    IN
    IF NotLoggedIn(context) THEN Throw(S, "AuthenticationError", "must_log_in")
    ELSE IF NotAdmin(context) THEN Throw(S, "ForbiddenError", "not_authorized")
    ELSE IF Trim(name) = "" THEN Throw(S, "UserInputError", "empty_name")
    ELSE IF DuplicateKey(S, newDatabase._id, newDatabase.tenantId, newDatabase.name)
    THEN Throw(S, "UserInputError", "name_exists")
    ELSE IF logged.err # "none"
    THEN [logged EXCEPT !.err = "Error", !.msg = "create_failed"]
    ELSE logged

(***************************************************************************)
(* Mutation.updateDatabase and Mutation.deleteDatabase                     *)
(***************************************************************************)
\* DatabaseDefinition.findOne({_id: id, tenantId: context.user.tenantId}),
\* the query by which every mutation finds a database. It does not look at
\* isDeleted.
OwnDatabase(S, id, context) ==
    FindOne(S.databases,
            LAMBDA d : d._id = id /\ d.tenantId = context.user.tenantId)

\* Mutation_updateDatabase that brings a soft-deleted database back.
Mutation_updateDatabase_Restores(S, context, id, name, auditFails) ==
    LET found == OwnDatabase(S, id, context)
        updatedDatabase == [found[1] EXCEPT !.name = Trim(name), !.isDeleted = FALSE]
        saved == [S EXCEPT !.databases = Replace(@, updatedDatabase)]
    IN
    IF NotLoggedIn(context) THEN Throw(S, "AuthenticationError", "must_log_in")
    ELSE IF NotAdmin(context) THEN Throw(S, "ForbiddenError", "not_authorized")
    ELSE IF Trim(name) = "" THEN Throw(S, "UserInputError", "empty_name")
    ELSE IF found = <<>> THEN Throw(S, "Error", "database_not_found")
    ELSE IF DuplicateKey(S, id, updatedDatabase.tenantId, updatedDatabase.name)
    THEN Throw(S, "UserInputError", "name_exists")
    ELSE LogAndReturn(saved, context, "UPDATE_DATABASE",
            [databaseId |-> updatedDatabase._id,
             databaseName |-> updatedDatabase.name],
            <<updatedDatabase>>, auditFails)

Mutation_updateDatabase(S, context, id, name, auditFails) ==
    LET found == OwnDatabase(S, id, context)
        updatedDatabase == [found[1] EXCEPT !.name = Trim(name)]
        saved == [S EXCEPT !.databases = Replace(@, updatedDatabase)]
    IN
    IF NotLoggedIn(context) THEN Throw(S, "AuthenticationError", "must_log_in")
    ELSE IF NotAdmin(context) THEN Throw(S, "ForbiddenError", "not_authorized")
    ELSE IF Trim(name) = "" THEN Throw(S, "UserInputError", "empty_name")
    ELSE IF found = <<>> THEN Throw(S, "Error", "database_not_found")
    ELSE IF DuplicateKey(S, id, updatedDatabase.tenantId, updatedDatabase.name)
    THEN Throw(S, "UserInputError", "name_exists")
    ELSE LogAndReturn(saved, context, "UPDATE_DATABASE",
            [databaseId |-> updatedDatabase._id,
             databaseName |-> updatedDatabase.name],
            <<updatedDatabase>>, auditFails)

\* Mutation_deleteDatabase cascading the soft delete to the records of the
\* database.
Mutation_deleteDatabase_Cascading(S, context, id, auditFails) ==
    LET found == OwnDatabase(S, id, context)
        saved == [S EXCEPT
                    !.databases = Replace(@, [found[1] EXCEPT !.isDeleted = TRUE]),
                    !.records = [i \in 1..Len(S.records) |->
                                    IF S.records[i].databaseId = id
                                    THEN [S.records[i] EXCEPT !.isDeleted = TRUE]
                                    ELSE S.records[i]]]
    IN
    IF NotLoggedIn(context) THEN Throw(S, "AuthenticationError", "must_log_in")
    ELSE IF NotAdmin(context) THEN Throw(S, "ForbiddenError", "not_authorized")
    ELSE IF found = <<>> THEN Throw(S, "Error", "database_not_found")
    ELSE LogAndReturn(saved, context, "DELETE_DATABASE",
            [databaseId |-> found[1]._id, databaseName |-> found[1].name],
            <<>>, auditFails)

Mutation_deleteDatabase(S, context, id, auditFails) ==
    LET found == OwnDatabase(S, id, context)
        saved == [S EXCEPT !.databases =
                    Replace(@, [found[1] EXCEPT !.isDeleted = TRUE])]
    IN
    IF NotLoggedIn(context) THEN Throw(S, "AuthenticationError", "must_log_in")
    ELSE IF NotAdmin(context) THEN Throw(S, "ForbiddenError", "not_authorized")
    ELSE IF found = <<>> THEN Throw(S, "Error", "database_not_found")
    ELSE LogAndReturn(saved, context, "DELETE_DATABASE",
            [databaseId |-> found[1]._id, databaseName |-> found[1].name],
            <<>>, auditFails)

(***************************************************************************)
(* Mutation.createField, Mutation.updateField, Mutation.deleteField        *)
(***************************************************************************)
\* The FieldInput values of the model.
FieldInputs ==
    { [name |-> "Email", type |-> "text"],
      [name |-> "email", type |-> "number"],
      [name |-> "Name", type |-> "text"] }

\* FieldExists comparing the names as they are written.
FieldExists_CaseSensitive(database, field) ==
    \E f \in Range(database.fields) : f.name = field.name

\* database.fields.some(
\*   (f) => f.name.toLowerCase() === field.name.toLowerCase())
FieldExists(database, field) ==
    \E f \in Range(database.fields) :
        ToLowerCase(f.name) = ToLowerCase(field.name)

\* database.fields.some(
\*   (f) => f.name.toLowerCase() === field.name.toLowerCase() &&
\*          f._id.toString() !== fieldId)
OtherFieldExists(database, fieldId, field) ==
    \E f \in Range(database.fields) :
        ToLowerCase(f.name) = ToLowerCase(field.name) /\ f._id # fieldId

\* database.fields.id(fieldId): the subdocument with that _id, or none.
FieldsId(database, fieldId) ==
    FindOne(database.fields, LAMBDA f : f._id = fieldId)

\* database.fields.push(field): the subdocument gets a fresh _id.
PushField(database, fieldId, field) ==
    [database EXCEPT !.fields =
        Append(@, [_id |-> fieldId, name |-> field.name, type |-> field.type])]

\* fieldToUpdate.set(field): the attributes are replaced in place.
SetField(database, fieldId, field) ==
    [database EXCEPT !.fields =
        [i \in 1..Len(database.fields) |->
            IF database.fields[i]._id = fieldId
            THEN [_id |-> fieldId, name |-> field.name, type |-> field.type]
            ELSE database.fields[i]]]

\* fieldToRemove.remove()
RemoveField(database, fieldId) ==
    [database EXCEPT !.fields = SelectSeq(@, LAMBDA f : f._id # fieldId)]

\* Mutation_createField with the audit entry written before the duplicate
\* check.
Mutation_createField_LogsFirst(S, context, databaseId, field, auditFails) ==
    LET found == OwnDatabase(S, databaseId, context)
        database == PushField(found[1], S.nextFieldId, field)
        logged == ActivityLogCreate(S, context, "CREATE_FIELD",
                    [databaseId |-> database._id, databaseName |-> database.name])
        saved == [logged EXCEPT !.databases = Replace(@, database),
                                !.nextFieldId = @ + 1]
    IN
    IF NotLoggedIn(context) THEN Throw(S, "AuthenticationError", "must_log_in")
    ELSE IF NotAdmin(context) THEN Throw(S, "ForbiddenError", "not_authorized")
    ELSE IF found = <<>> THEN Throw(S, "ForbiddenError", "database_not_found")
    ELSE IF FieldExists(found[1], field)
    THEN Throw(logged, "UserInputError", "field_exists")
    ELSE Return(saved, <<database>>)

Mutation_createField(S, context, databaseId, field, auditFails) ==
    LET found == OwnDatabase(S, databaseId, context)
        database == PushField(found[1], S.nextFieldId, field)
        saved == [S EXCEPT !.databases = Replace(@, database),
                           !.nextFieldId = @ + 1]
    IN
    IF NotLoggedIn(context) THEN Throw(S, "AuthenticationError", "must_log_in")
    ELSE IF NotAdmin(context) THEN Throw(S, "ForbiddenError", "not_authorized")
    ELSE IF found = <<>> THEN Throw(S, "ForbiddenError", "database_not_found")
    ELSE IF FieldExists(found[1], field)
    THEN Throw(S, "UserInputError", "field_exists")
    ELSE LogAndReturn(saved, context, "CREATE_FIELD",
            [databaseId |-> database._id, databaseName |-> database.name],
            <<database>>, auditFails)

\* Mutation_updateField that sets and saves the field before it looks for
\* another field of that name.
Mutation_updateField_SavesFirst(S, context, databaseId, fieldId, field, auditFails) ==
    LET found == OwnDatabase(S, databaseId, context)
        database == SetField(found[1], fieldId, field)
        saved == [S EXCEPT !.databases = Replace(@, database)]
    IN
    IF NotLoggedIn(context) THEN Throw(S, "AuthenticationError", "must_log_in")
    ELSE IF NotAdmin(context) THEN Throw(S, "ForbiddenError", "not_authorized")
    ELSE IF found = <<>> THEN Throw(S, "ForbiddenError", "database_not_found")
    ELSE IF FieldsId(found[1], fieldId) = <<>>
    THEN Throw(S, "UserInputError", "field_not_found")
    ELSE IF OtherFieldExists(found[1], fieldId, field)
    THEN Throw(saved, "UserInputError", "field_exists")
    ELSE LogAndReturn(saved, context, "UPDATE_FIELD",
            [databaseId |-> database._id, databaseName |-> database.name],
            <<database>>, auditFails)

Mutation_updateField(S, context, databaseId, fieldId, field, auditFails) ==
    LET found == OwnDatabase(S, databaseId, context)
        database == SetField(found[1], fieldId, field)
        saved == [S EXCEPT !.databases = Replace(@, database)]
    IN
    IF NotLoggedIn(context) THEN Throw(S, "AuthenticationError", "must_log_in")
    ELSE IF NotAdmin(context) THEN Throw(S, "ForbiddenError", "not_authorized")
    ELSE IF found = <<>> THEN Throw(S, "ForbiddenError", "database_not_found")
    ELSE IF FieldsId(found[1], fieldId) = <<>>
    THEN Throw(S, "UserInputError", "field_not_found")
    ELSE IF OtherFieldExists(found[1], fieldId, field)
    THEN Throw(S, "UserInputError", "field_exists")
    ELSE LogAndReturn(saved, context, "UPDATE_FIELD",
            [databaseId |-> database._id, databaseName |-> database.name],
            <<database>>, auditFails)

Mutation_deleteField(S, context, databaseId, fieldId, auditFails) ==
    LET found == OwnDatabase(S, databaseId, context)
        database == RemoveField(found[1], fieldId)
        saved == [S EXCEPT !.databases = Replace(@, database)]
    IN
    IF NotLoggedIn(context) THEN Throw(S, "AuthenticationError", "must_log_in")
    ELSE IF NotAdmin(context) THEN Throw(S, "ForbiddenError", "not_authorized")
    ELSE IF found = <<>> THEN Throw(S, "ForbiddenError", "database_not_found")
    ELSE IF FieldsId(found[1], fieldId) = <<>>
    THEN Throw(S, "UserInputError", "field_not_found")
    ELSE LogAndReturn(saved, context, "DELETE_FIELD",
            [databaseId |-> database._id, databaseName |-> database.name],
            <<database>>, auditFails)

(***************************************************************************)
(* The `values` of a record: a Mongoose Map, kept as the sequence of its   *)
(* entries [field, value] in insertion order. A `values` input (a JSON     *)
(* object) is a sequence of entries with distinct fields as well.          *)
(***************************************************************************)
MapHas(m, key) == \E i \in 1..Len(m) : m[i].field = key

\* Map.prototype.get; only used where MapHas holds.
MapGet(m, key) == LET i == CHOOSE i \in 1..Len(m) : m[i].field = key IN m[i].value

\* Map.prototype.set: overwrite in place, or insert at the end.
MapSet(m, key, value) ==
    IF MapHas(m, key)
    THEN [i \in 1..Len(m) |->
            IF m[i].field = key THEN [field |-> key, value |-> value] ELSE m[i]]
    ELSE Append(m, [field |-> key, value |-> value])

\* The `values` inputs of the model.
ValuesInputs ==
    { <<[field |-> "Email", value |-> "a"]>>,
      <<[field |-> "Email", value |-> "b"]>>,
      <<[field |-> "extra", value |-> "b"]>>,
      <<[field |-> "extra", value |-> "a"], [field |-> "Email", value |-> "A"]>> }

(***************************************************************************)
(* Mutation.createRecord                                                   *)
(***************************************************************************)
\* ValidatedValues without the whitelist: the input is stored as it came.
ValidatedValues_KeepsAll(fields, values) == values

\* for (const field of database.fields) {
\*   const providedValue = values[field.name];
\*   if (providedValue !== undefined) validatedValues.set(field.name, ...) }
RECURSIVE ValidatedValues(_, _)
ValidatedValues(fields, values) ==
    IF fields = <<>> THEN <<>>
    ELSE LET rest == ValidatedValues(SubSeq(fields, 1, Len(fields) - 1), values)
             field == fields[Len(fields)]
         IN IF MapHas(values, field.name)
            THEN MapSet(rest, field.name, MapGet(values, field.name))
            ELSE rest

Mutation_createRecord(S, context, databaseId, values, auditFails) ==
    LET found == OwnDatabase(S, databaseId, context)
        newRecord == [_id |-> Len(S.records) + 1, databaseId |-> databaseId,
                      tenantId |-> context.user.tenantId,
                      values |-> ValidatedValues(found[1].fields, values),
                      isDeleted |-> FALSE]
        saved == [S EXCEPT !.records = Append(@, newRecord)]
    IN
    IF NotLoggedIn(context) THEN Throw(S, "AuthenticationError", "must_log_in")
    ELSE IF NotEditorOrAdmin(context)
    THEN Throw(S, "ForbiddenError", "not_authorized")
    ELSE IF found = <<>> THEN Throw(S, "ForbiddenError", "database_not_found")
    ELSE LogAndReturn(saved, context, "CREATE_RECORD",
            [databaseId |-> databaseId, recordId |-> newRecord._id],
            <<newRecord>>, auditFails)

(***************************************************************************)
(* Mutation.updateRecord and Mutation.deleteRecord                         *)
(***************************************************************************)
\* OwnRecord with the tenantId condition left out of the query.
OwnRecord_AnyTenant(S, id, context) ==
    FindOne(S.records, LAMBDA r : r._id = id)

\* Record.findOne({_id: id, tenantId: context.user.tenantId}): the query of
\* Query.record and of the record mutations. It does not look at isDeleted.
OwnRecord(S, id, context) ==
    FindOne(S.records,
            LAMBDA r : r._id = id /\ r.tenantId = context.user.tenantId)

\* MergeValues that replaces the mapping by the input.
MergeValues_Replaces(old, values) == values

\* for (const [key, value] of Object.entries(values)) record.values.set(...)
RECURSIVE MergeValues(_, _)
MergeValues(old, values) ==
    IF values = <<>> THEN old
    ELSE MergeValues(MapSet(old, values[1].field, values[1].value), Tail(values))

Mutation_updateRecord(S, context, id, values, auditFails) ==
    LET found == OwnRecord(S, id, context)
        record == [found[1] EXCEPT !.values = MergeValues(@, values)]
        saved == [S EXCEPT !.records = Replace(@, record)]
    IN
    IF NotLoggedIn(context) THEN Throw(S, "AuthenticationError", "must_log_in")
    ELSE IF NotEditorOrAdmin(context)
    THEN Throw(S, "ForbiddenError", "not_authorized")
    ELSE IF found = <<>> THEN Throw(S, "UserInputError", "record_not_found")
    ELSE LogAndReturn(saved, context, "UPDATE_RECORD",
            [recordId |-> record._id], <<record>>, auditFails)

\* Mutation_deleteRecord that removes the document from the collection.
Mutation_deleteRecord_Removes(S, context, id, auditFails) ==
    LET found == OwnRecord(S, id, context)
        saved == [S EXCEPT !.records = SelectSeq(@, LAMBDA r : r._id # id)]
    IN
    IF NotLoggedIn(context) THEN Throw(S, "AuthenticationError", "must_log_in")
    ELSE IF NotEditorOrAdmin(context)
    THEN Throw(S, "ForbiddenError", "not_authorized")
    ELSE IF found = <<>> THEN Throw(S, "UserInputError", "record_not_found")
    ELSE LogAndReturn(saved, context, "DELETE_RECORD",
            [recordId |-> found[1]._id, databaseId |-> found[1].databaseId],
            <<>>, auditFails)

Mutation_deleteRecord(S, context, id, auditFails) ==
    LET found == OwnRecord(S, id, context)
        saved == [S EXCEPT !.records =
                    Replace(@, [found[1] EXCEPT !.isDeleted = TRUE])]
    IN
    IF NotLoggedIn(context) THEN Throw(S, "AuthenticationError", "must_log_in")
    ELSE IF NotEditorOrAdmin(context)
    THEN Throw(S, "ForbiddenError", "not_authorized")
    ELSE IF found = <<>> THEN Throw(S, "UserInputError", "record_not_found")
    ELSE LogAndReturn(saved, context, "DELETE_RECORD",
            [recordId |-> found[1]._id, databaseId |-> found[1].databaseId],
            <<>>, auditFails)

(***************************************************************************)
(* Query.databases, Query.database, Query.record                           *)
(***************************************************************************)
\* VisibleDatabase without the isDeleted condition.
VisibleDatabase_DeletedToo(d, context) == d.tenantId = context.user.tenantId

\* The filter {tenantId: context.user.tenantId, isDeleted: false}.
VisibleDatabase(d, context) ==
    d.tenantId = context.user.tenantId /\ d.isDeleted = FALSE

Query_databases(S, context) ==
    IF NotLoggedIn(context) THEN Throw(S, "AuthenticationError", "must_log_in")
    ELSE Return(S, SelectSeq(S.databases, LAMBDA d : VisibleDatabase(d, context)))

Query_database(S, context, id) ==
    LET singleDatabase ==
            FindOne(S.databases,
                    LAMBDA d : d._id = id /\ VisibleDatabase(d, context))
    IN
    IF NotLoggedIn(context) THEN Throw(S, "AuthenticationError", "must_log_in")
    ELSE IF singleDatabase = <<>> THEN Throw(S, "Error", "database_not_found")
    ELSE Return(S, singleDatabase)

Query_record(S, context, id) ==
    LET recordFromDB == OwnRecord(S, id, context) IN
    IF NotLoggedIn(context) THEN Throw(S, "AuthenticationError", "must_log_in")
    ELSE Return(S, recordFromDB)

(***************************************************************************)
(* Query.records: the aggregation pipeline. An optional argument is <<>>   *)
(* when unset and <<v>> when set.                                          *)
(***************************************************************************)
DefaultRecordsLimit == 20
DefaultLogsLimit == 25

\* MatchStage without the tenantId condition.
MatchStage_DatabaseOnly(recs, databaseId, context) ==
    SelectSeq(recs, LAMBDA r : r.databaseId = databaseId /\ r.isDeleted = FALSE)

\* { $match: { databaseId, tenantId: context.user.tenantId, isDeleted: false } }
MatchStage(recs, databaseId, context) ==
    SelectSeq(recs, LAMBDA r : /\ r.databaseId = databaseId
                               /\ r.tenantId = context.user.tenantId
                               /\ r.isDeleted = FALSE)

\* { $regex: search, $options: "i" } on a stored value. Values and search
\* terms are one-character strings, so a match is equality ignoring case.
RegexMatch(value, search) == ToLowerCase(value) = ToLowerCase(search)

\* dbDefinition.fields.filter((field) => field.type === "text")
\*                    .map((field) => field.name)
TextFields(dbDefinition) ==
    {f.name : f \in {g \in Range(dbDefinition.fields) : g.type = "text"}}

\* if (search) { ... pipeline.push({ $match: { $or: searchOrConditions } }) }
\* DatabaseDefinition.findById(databaseId) filters neither by tenant nor by
\* isDeleted.
SearchStage(S, recs, databaseId, search) ==
    IF search = <<>> \/ search = <<"">> THEN recs
    ELSE LET dbDefinition == FindOne(S.databases, LAMBDA d : d._id = databaseId)
         IN IF dbDefinition = <<>> THEN recs
            ELSE IF TextFields(dbDefinition[1]) = {} THEN recs
            ELSE SelectSeq(recs, LAMBDA r :
                    \E name \in TextFields(dbDefinition[1]) :
                        /\ MapHas(r.values, name)
                        /\ RegexMatch(MapGet(r.values, name), search[1]))

\* The order of stored values under $sort and $gt: a missing value (null)
\* before every string, strings by code unit.
Rank(value) ==
    CASE value = "A" -> 1
      [] value = "a" -> 2
      [] value = "b" -> 3
      [] OTHER -> 4

RankOf(r, field) == IF MapHas(r.values, field) THEN Rank(MapGet(r.values, field)) ELSE 0

\* One entry of filterQuery, `values.${fieldName}`: condition. The condition
\* is a literal (op "eq") or one operator of the store, {$ne: v} or {$gt: v}.
Satisfies(r, cond) ==
    CASE cond.op = "eq" ->
            MapHas(r.values, cond.field) /\ MapGet(r.values, cond.field) = cond.value
      [] cond.op = "ne" ->
            ~(MapHas(r.values, cond.field) /\ MapGet(r.values, cond.field) = cond.value)
      [] cond.op = "gt" ->
            MapHas(r.values, cond.field) /\ RankOf(r, cond.field) > Rank(cond.value)

\* if (filter) { ... pipeline.push({ $match: filterQuery }) }
FilterStage(recs, filter) ==
    IF filter = <<>> THEN recs
    ELSE SelectSeq(recs, LAMBDA r : \A cond \in Range(filter[1]) : Satisfies(r, cond))

\* sort.order.toLowerCase() === "desc" ? -1 : 1
SortOrder(sort) == IF ToLowerCase(sort.order) = "desc" THEN -1 ELSE 1

\* x put into the sorted sequence, after the documents it does not precede.
RECURSIVE InsertSorted(_, _, _, _)
InsertSorted(sorted, x, field, sortOrder) ==
    IF sorted = <<>> THEN <<x>>
    ELSE IF sortOrder * RankOf(x, field) < sortOrder * RankOf(Head(sorted), field)
    THEN <<x>> \o sorted
    ELSE <<Head(sorted)>> \o InsertSorted(Tail(sorted), x, field, sortOrder)

\* if (sort) pipeline.push({ $sort: { [`values.${sort.field}`]: sortOrder } })
\* Documents with equal keys keep the order of the collection.
RECURSIVE SortStage(_, _)
SortStage(recs, sort) ==
    IF sort = <<>> \/ recs = <<>> THEN recs
    ELSE InsertSorted(SortStage(SubSeq(recs, 1, Len(recs) - 1), sort),
                      recs[Len(recs)], sort[1].field, SortOrder(sort[1]))

\* const pageNum = page && page > 0 ? page : 1;
PageNum(page) == IF page # <<>> /\ page[1] > 0 THEN page[1] ELSE 1

\* const limitNum = limit && limit > 0 ? limit : <default>;
LimitNum(limit, default) == IF limit # <<>> /\ limit[1] > 0 THEN limit[1] ELSE default

\* SkipNum that skips the requested page as well.
SkipNum_OnePageTooFar(pageNum, limitNum) == pageNum * limitNum

\* const skipNum = (pageNum - 1) * limitNum;
SkipNum(pageNum, limitNum) == (pageNum - 1) * limitNum

\* { $skip: skipNum }
SkipStage(docs, skipNum) == SubSeq(docs, skipNum + 1, Len(docs))

\* { $limit: limitNum }
LimitStage(docs, limitNum) ==
    SubSeq(docs, 1, IF limitNum < Len(docs) THEN limitNum ELSE Len(docs))

\* The pipeline up to and including $sort.
MatchedAndSorted(S, context, databaseId, filter, sort, search) ==
    SortStage(
        FilterStage(
            SearchStage(S, MatchStage(S.records, databaseId, context),
                        databaseId, search),
            filter),
        sort)

Query_records(S, context, databaseId, filter, sort, page, limit, search) ==
    LET limitNum == LimitNum(limit, DefaultRecordsLimit)
        skipNum == SkipNum(PageNum(page), limitNum)
    IN
    IF NotLoggedIn(context) THEN Throw(S, "AuthenticationError", "must_log_in")
    ELSE Return(S,
            LimitStage(
                SkipStage(
                    MatchedAndSorted(S, context, databaseId, filter, sort, search),
                    skipNum),
                limitNum))

(***************************************************************************)
(* Query.activityLogs                                                      *)
(***************************************************************************)
\* .sort({ createdAt: -1 }): the most recent entry first.
Reverse(s) == [i \in 1..Len(s) |-> s[Len(s) + 1 - i]]

Query_activityLogs(S, context, limit, page) ==
    LET limitNum == LimitNum(limit, DefaultLogsLimit)
        skipNum == SkipNum(PageNum(page), limitNum)
        tenantLogs == SelectSeq(S.logs,
                        LAMBDA l : l.tenantId = context.user.tenantId)
    IN
    IF NotLoggedIn(context) THEN Throw(S, "AuthenticationError", "must_log_in")
    ELSE Return(S, LimitStage(SkipStage(Reverse(tenantLogs), skipNum), limitNum))

(***************************************************************************)
(* The arguments the model calls the resolvers with.                       *)
(***************************************************************************)
\* One id more than the collection can hold: an id no document has.
DatabaseIds == 1..(MaxDbs + 1)

RecordIds == 1..(MaxRecords + 1)

\* The field ids given out so far, and the next one, which no field has.
FieldIds(S) == 1..S.nextFieldId

PageInputs == {<<>>, <<0>>, <<1>>, <<2>>}

LimitInputs == {<<>>, <<1>>}

NoArgs == [filter |-> <<>>, sort |-> <<>>, page |-> <<>>, limit |-> <<>>, search |-> <<>>]

FilterInputs ==
    { <<>>,
      << <<[field |-> "Email", op |-> "eq", value |-> "a"]>> >>,
      << <<[field |-> "Email", op |-> "ne", value |-> "a"]>> >>,
      << <<[field |-> "Email", op |-> "gt", value |-> "A"],
           [field |-> "extra", op |-> "eq", value |-> "b"]>> >> }

SortInputs ==
    { <<>>,
      <<[field |-> "Email", order |-> "asc"]>>,
      <<[field |-> "Email", order |-> "DESC"]>> }

SearchInputs == {<<>>, <<"a">>}

\* The argument combinations of Query.records: every stage alone, and the
\* stages together.
RecordsArgs ==
    {[NoArgs EXCEPT !.filter = f] : f \in FilterInputs}
    \cup {[NoArgs EXCEPT !.sort = s] : s \in SortInputs}
    \cup {[NoArgs EXCEPT !.search = s] : s \in SearchInputs}
    \cup {[NoArgs EXCEPT !.page = p, !.limit = l] : p \in PageInputs, l \in LimitInputs}
    \cup {[filter |-> f, sort |-> <<[field |-> "Email", order |-> "DESC"]>>,
           page |-> <<1>>, limit |-> <<1>>, search |-> <<"a">>] :
            f \in FilterInputs \ {<<>>}}

(***************************************************************************)
(* The state machine: every resolver call is one step. The steps are those *)
(* of a store that accepts every ActivityLog insert; what a resolver does  *)
(* when the insert is rejected is its outcome with auditFails = TRUE,      *)
(* which the properties below read in every reachable state.               *)
(***************************************************************************)
NoReply == [context |-> [user |-> NoUser], args |-> NoArgs, err |-> "no_call", ret |-> <<>>]

Init ==
    /\ databases = <<>>
    /\ records = <<>>
    /\ logs = <<>>
    /\ nextFieldId = 1
    /\ reply = NoReply
    /\ inflight = <<>>

\* The step of a resolver call with outcome r, within the bounds.
Apply(r) ==
    /\ Len(r.store.databases) <= MaxDbs
    /\ Len(r.store.records) <= MaxRecords
    /\ Len(r.store.logs) <= MaxLogs
    /\ \A d \in Range(r.store.databases) : Len(d.fields) <= MaxFields
    /\ databases' = r.store.databases
    /\ records' = r.store.records
    /\ logs' = r.store.logs
    /\ nextFieldId' = r.store.nextFieldId
    /\ UNCHANGED <<reply, inflight>>

createDatabase ==
    \E context \in Contexts, name \in DbNames :
        Apply(Mutation_createDatabase(Store, context, name, FALSE))

updateDatabase ==
    \E context \in Contexts, id \in DatabaseIds, name \in DbNames :
        Apply(Mutation_updateDatabase(Store, context, id, name, FALSE))

deleteDatabase ==
    \E context \in Contexts, id \in DatabaseIds :
        Apply(Mutation_deleteDatabase(Store, context, id, FALSE))

createField ==
    \E context \in Contexts, databaseId \in DatabaseIds, field \in FieldInputs :
        Apply(Mutation_createField(Store, context, databaseId, field, FALSE))

updateField ==
    \E context \in Contexts, databaseId \in DatabaseIds,
       fieldId \in FieldIds(Store), field \in FieldInputs :
        Apply(Mutation_updateField(Store, context, databaseId, fieldId, field,
                                   FALSE))

deleteField ==
    \E context \in Contexts, databaseId \in DatabaseIds,
       fieldId \in FieldIds(Store) :
        Apply(Mutation_deleteField(Store, context, databaseId, fieldId, FALSE))

createRecord ==
    \E context \in Contexts, databaseId \in DatabaseIds, values \in ValuesInputs :
        Apply(Mutation_createRecord(Store, context, databaseId, values, FALSE))

updateRecord ==
    \E context \in Contexts, id \in RecordIds, values \in ValuesInputs :
        Apply(Mutation_updateRecord(Store, context, id, values, FALSE))

deleteRecord ==
    \E context \in Contexts, id \in RecordIds :
        Apply(Mutation_deleteRecord(Store, context, id, FALSE))

\* The queries write nothing: their steps leave the state as it is.
databasesQuery ==
    \E context \in Contexts : Apply(Query_databases(Store, context))

databaseQuery ==
    \E context \in Contexts, id \in DatabaseIds :
        Apply(Query_database(Store, context, id))

recordsQuery ==
    \E context \in Contexts, databaseId \in DatabaseIds, a \in RecordsArgs :
        Apply(Query_records(Store, context, databaseId, a.filter, a.sort, a.page,
                            a.limit, a.search))

recordQuery ==
    \E context \in Contexts, id \in RecordIds :
        Apply(Query_record(Store, context, id))

activityLogsQuery ==
    \E context \in Contexts, limit \in LimitInputs, page \in PageInputs :
        Apply(Query_activityLogs(Store, context, limit, page))

Next ==
    \/ createDatabase
    \/ updateDatabase
    \/ deleteDatabase
    \/ createField
    \/ updateField
    \/ deleteField
    \/ createRecord
    \/ updateRecord
    \/ deleteRecord
    \/ databasesQuery
    \/ databaseQuery
    \/ recordsQuery
    \/ recordQuery
    \/ activityLogsQuery

Spec == Init /\ [][Next]_vars

(***************************************************************************)
(* A client paging through Query.records of a database that holds n        *)
(* records: the state after one createDatabase, one createField and n      *)
(* createRecord calls of the tenant's Admin.                               *)
(***************************************************************************)
PagedDatabase ==
    [_id |-> 1, name |-> "A", tenantId |-> 1,
     fields |-> <<[_id |-> 1, name |-> "Email", type |-> "text"]>>,
     isDeleted |-> FALSE]

PagedRecord(i) ==
    [_id |-> i, databaseId |-> 1, tenantId |-> 1,
     values |-> <<[field |-> "Email",
                   value |-> IF i % 3 = 0 THEN "a" ELSE IF i % 3 = 1 THEN "b" ELSE "A"]>>,
     isDeleted |-> FALSE]

PagedContext == [user |-> [_id |-> 1, tenantId |-> 1, role |-> "Admin"]]

PagedLogs(n) ==
    <<LogEntry(PagedContext, "CREATE_DATABASE", [databaseId |-> 1, databaseName |-> "A"]),
      LogEntry(PagedContext, "CREATE_FIELD", [databaseId |-> 1, databaseName |-> "A"])>>
    \o [i \in 1..n |->
          LogEntry(PagedContext, "CREATE_RECORD", [databaseId |-> 1, recordId |-> i])]

InitPage ==
    \E n \in 0..MaxPageRecords :
        /\ databases = <<PagedDatabase>>
        /\ records = [i \in 1..n |-> PagedRecord(i)]
        /\ logs = PagedLogs(n)
        /\ nextFieldId = 2
        /\ reply = NoReply
        /\ inflight = <<>>

PagedPageInputs == {<<>>} \cup {<<p>> : p \in -1..4}

PagedLimitInputs == {<<>>, <<-1>>, <<0>>, <<7>>, <<10>>}

PagedArgs ==
    {[NoArgs EXCEPT !.page = p, !.limit = l, !.sort = s] :
        p \in PagedPageInputs, l \in PagedLimitInputs,
        s \in {<<>>, <<[field |-> "Email", order |-> "asc"]>>}}

\* The client asks for one page and keeps the answer.
recordsPage ==
    /\ reply = NoReply
    /\ \E context \in {c \in Contexts : c.user.role \in {"Viewer", "none"}},
       a \in PagedArgs :
        LET r == Query_records(Store, context, 1, a.filter, a.sort, a.page,
                               a.limit, a.search)
        IN  /\ reply' = [context |-> context, args |-> a, err |-> r.err, ret |-> r.ret]
            /\ UNCHANGED <<databases, records, logs, nextFieldId, inflight>>

NextPage == recordsPage

SpecPage == InitPage /\ [][NextPage]_vars

(***************************************************************************)
(* Properties. They are read off the outcomes of the calls a client can    *)
(* make in a reachable state: P(context, action, kind, id, r, rAbsent)     *)
(* gets the caller, the audit tag of the resolver, the kind of document    *)
(* the id argument names, the id, the outcome r of the call and the        *)
(* outcome rAbsent of the same call with an id that no document has.       *)
(***************************************************************************)
(***************************************************************************)
(* Listing: Query.records over a store of two tenants. Tenant 1 owns       *)
(* database 1, tenant 2 owns database 2, both with the text field Email;   *)
(* the store holds up to MaxListRecords records, each in one of the two    *)
(* databases, live or soft-deleted. One client sends one query and keeps   *)
(* the answer in `reply`.                                                  *)
(***************************************************************************)
MaxListRecords == 3

ListedDatabases ==
    [t \in 1..2 |->
        [_id |-> t, name |-> "A", tenantId |-> t,
         fields |-> <<[_id |-> t, name |-> "Email", type |-> "text"]>>,
         isDeleted |-> FALSE]]

\* What createRecord, updateRecord and deleteRecord leave of a record: the
\* tenant is the tenant of the database.
ListedKinds ==
    {[databaseId |-> t, tenantId |-> t, value |-> v, isDeleted |-> FALSE] :
        t \in 1..2, v \in {"a", "b"}}
    \cup {[databaseId |-> t, tenantId |-> t, value |-> "a", isDeleted |-> TRUE] :
            t \in 1..2}

ListedRecord(i, kind) ==
    [_id |-> i, databaseId |-> kind.databaseId, tenantId |-> kind.tenantId,
     values |-> <<[field |-> "Email", value |-> kind.value]>>,
     isDeleted |-> kind.isDeleted]

\* The Admin of a tenant: user 1 for tenant 1, user 4 for tenant 2.
ListedAdmin(t) ==
    [user |-> [_id |-> IF t = 1 THEN 1 ELSE 4, tenantId |-> t, role |-> "Admin"]]

\* The ActivityLog of the calls that built the store.
ListedLogs(recs) ==
    [t \in 1..2 |->
        LogEntry(ListedAdmin(t), "CREATE_DATABASE",
                 [databaseId |-> t, databaseName |-> "A"])]
    \o [t \in 1..2 |->
        LogEntry(ListedAdmin(t), "CREATE_FIELD",
                 [databaseId |-> t, databaseName |-> "A"])]
    \o [i \in 1..Len(recs) |->
        LogEntry(ListedAdmin(recs[i].tenantId), "CREATE_RECORD",
                 [databaseId |-> recs[i].databaseId, recordId |-> i])]
    \o [i \in 1..Len(SelectSeq(recs, LAMBDA r : r.isDeleted)) |->
        LogEntry(ListedAdmin(SelectSeq(recs, LAMBDA r : r.isDeleted)[i].tenantId),
                 "DELETE_RECORD",
                 [recordId |-> SelectSeq(recs, LAMBDA r : r.isDeleted)[i]._id,
                  databaseId |-> SelectSeq(recs, LAMBDA r : r.isDeleted)[i].databaseId])]

InitList ==
    \E n \in 0..MaxListRecords : \E kinds \in [1..n -> ListedKinds] :
        /\ databases = ListedDatabases
        /\ records = [i \in 1..n |-> ListedRecord(i, kinds[i])]
        /\ logs = ListedLogs(records)
        /\ nextFieldId = 3
        /\ reply = NoReply
        /\ inflight = <<>>

\* The queries of the client: each optional argument unset or set.
ListedArgs ==
    [databaseId : 1..2,
     filter : {<<>>, << <<[field |-> "Email", op |-> "ne", value |-> "a"]>> >>},
     sort : {<<>>, <<[field |-> "Email", order |-> "DESC"]>>},
     page : {<<>>, <<2>>},
     limit : {<<>>, <<1>>},
     search : {<<>>, <<"a">>}]

\* The client sends one query, as the Viewer of tenant 1 or as the Admin of
\* tenant 2, and keeps the answer.
recordsList ==
    /\ reply = NoReply
    /\ \E context \in {c \in Contexts : c.user._id \in {3, 4}}, a \in ListedArgs :
        LET r == Query_records(Store, context, a.databaseId, a.filter, a.sort,
                               a.page, a.limit, a.search)
        IN  /\ reply' = [context |-> context, args |-> a, err |-> r.err, ret |-> r.ret]
            /\ UNCHANGED <<databases, records, logs, nextFieldId, inflight>>

NextList == recordsList

SpecList == InitList /\ [][NextList]_vars

(***************************************************************************)
(* Concurrent schema changes: MaxRaceCalls calls of createField and        *)
(* updateField by the Admin of tenant 1 on database 1, interleaved at      *)
(* their awaits. Between two awaits a resolver runs alone (one event       *)
(* loop), so a call takes three steps:                                     *)
(*   find  the store answers findOne; the resolver checks the names on the *)
(*         document it got and changes that document in memory;            *)
(*   save  the store applies database.save();                              *)
(*   log   the store applies ActivityLog.create and the call returns.      *)
(* save() writes what the call changed: the pushed subdocument is appended *)
(* to the stored array, the set subdocument replaces the stored element    *)
(* with its _id. Whether the store refuses the save of a changed element   *)
(* after another call has appended one (the version check of the document) *)
(* is left open: both outcomes are steps.                                  *)
(***************************************************************************)
MaxRaceCalls == 2

RaceContext == [user |-> [_id |-> 1, tenantId |-> 1, role |-> "Admin"]]

\* The field lists database 1 can start with.
RaceFields ==
    { <<>>,
      <<[_id |-> 1, name |-> "Email", type |-> "text"]>>,
      <<[_id |-> 1, name |-> "Email", type |-> "text"],
        [_id |-> 2, name |-> "Name", type |-> "text"]>> }

RaceDatabase(fields) ==
    [_id |-> 1, name |-> "A", tenantId |-> 1, fields |-> fields, isDeleted |-> FALSE]

RaceLogs(fields) ==
    <<LogEntry(RaceContext, "CREATE_DATABASE", [databaseId |-> 1, databaseName |-> "A"])>>
    \o [i \in 1..Len(fields) |->
          LogEntry(RaceContext, "CREATE_FIELD", [databaseId |-> 1, databaseName |-> "A"])]

\* A call that has not been made yet.
NotCalled ==
    [pc |-> "start", op |-> "none", fieldId |-> 0,
     field |-> [name |-> "", type |-> ""], database |-> <<>>, err |-> "none"]

InitRace ==
    \E fields \in RaceFields :
        /\ databases = <<RaceDatabase(fields)>>
        /\ records = <<>>
        /\ logs = RaceLogs(fields)
        /\ nextFieldId = Len(fields) + 1
        /\ reply = NoReply
        /\ inflight = [p \in 1..MaxRaceCalls |-> NotCalled]

\* createField up to `await database.save()`: findOne, the fieldExists
\* check, and the push on the document in memory.
findCreateField(p) ==
    /\ inflight[p].pc = "start"
    /\ \E field \in FieldInputs :
        LET found == OwnDatabase(Store, 1, RaceContext) IN
        IF found = <<>>
        THEN /\ inflight' = [inflight EXCEPT ![p] =
                    [NotCalled EXCEPT !.pc = "done", !.op = "createField",
                                      !.field = field, !.err = "database_not_found"]]
             /\ UNCHANGED nextFieldId
        ELSE IF FieldExists(found[1], field)
        THEN /\ inflight' = [inflight EXCEPT ![p] =
                    [NotCalled EXCEPT !.pc = "done", !.op = "createField",
                                      !.field = field, !.err = "field_exists"]]
             /\ UNCHANGED nextFieldId
        ELSE /\ inflight' = [inflight EXCEPT ![p] =
                    [pc |-> "save", op |-> "createField", fieldId |-> nextFieldId,
                     field |-> field,
                     database |-> <<PushField(found[1], nextFieldId, field)>>,
                     err |-> "none"]]
             /\ nextFieldId' = nextFieldId + 1
    /\ UNCHANGED <<databases, records, logs, reply>>

\* updateField up to `await database.save()`: findOne, fields.id, the
\* otherFieldExists check, and the set on the document in memory.
findUpdateField(p) ==
    /\ inflight[p].pc = "start"
    /\ \E fieldId \in FieldIds(Store), field \in FieldInputs :
        LET found == OwnDatabase(Store, 1, RaceContext)
            failed(err) == [NotCalled EXCEPT !.pc = "done", !.op = "updateField",
                                             !.fieldId = fieldId, !.field = field,
                                             !.err = err]
        IN
        inflight' = [inflight EXCEPT ![p] =
            IF found = <<>> THEN failed("database_not_found")
            ELSE IF FieldsId(found[1], fieldId) = <<>> THEN failed("field_not_found")
            ELSE IF OtherFieldExists(found[1], fieldId, field)
            THEN failed("field_exists")
            ELSE [pc |-> "save", op |-> "updateField", fieldId |-> fieldId,
                  field |-> field,
                  database |-> <<SetField(found[1], fieldId, field)>>,
                  err |-> "none"]]
    /\ UNCHANGED <<databases, records, logs, nextFieldId, reply>>

\* The store applies database.save() of call p to the stored document.
saveField(p) ==
    /\ inflight[p].pc = "save"
    /\ LET stored == databases[1]
           call == inflight[p]
           appended == Len(stored.fields) # (IF call.op = "createField"
                                             THEN Len(call.database[1].fields) - 1
                                             ELSE Len(call.database[1].fields))
       IN
       \/ /\ call.op = "createField"
          /\ databases' = Replace(databases,
                                  PushField(stored, call.fieldId, call.field))
          /\ inflight' = [inflight EXCEPT ![p].pc = "log"]
       \/ /\ call.op = "updateField"
          /\ databases' = Replace(databases,
                                  SetField(stored, call.fieldId, call.field))
          /\ inflight' = [inflight EXCEPT ![p].pc = "log"]
       \/ /\ call.op = "updateField" /\ appended
          /\ inflight' = [inflight EXCEPT ![p].pc = "done", ![p].err = "version_error"]
          /\ UNCHANGED databases
    /\ UNCHANGED <<records, logs, nextFieldId, reply>>

\* The store applies ActivityLog.create of call p, and the call returns.
logField(p) ==
    /\ inflight[p].pc = "log"
    /\ logs' = Append(logs,
                LogEntry(RaceContext,
                         IF inflight[p].op = "createField" THEN "CREATE_FIELD"
                         ELSE "UPDATE_FIELD",
                         [databaseId |-> 1, databaseName |-> databases[1].name]))
    /\ inflight' = [inflight EXCEPT ![p].pc = "done"]
    /\ UNCHANGED <<databases, records, nextFieldId, reply>>

NextRace ==
    \E p \in 1..MaxRaceCalls :
        \/ findCreateField(p)
        \/ findUpdateField(p)
        \/ saveField(p)
        \/ logField(p)

SpecRace == InitRace /\ [][NextRace]_vars

AbsentDatabaseId == MaxDbs + 1

AbsentRecordId == MaxRecords + 1

ForAllMutations(P(_, _, _, _, _, _)) ==
    /\ \A context \in Contexts, name \in DbNames, auditFails \in BOOLEAN :
        P(context, "CREATE_DATABASE", "none", 0,
          Mutation_createDatabase(Store, context, name, auditFails),
          Mutation_createDatabase(Store, context, name, auditFails))
    /\ \A context \in Contexts, id \in DatabaseIds, name \in DbNames,
          auditFails \in BOOLEAN :
        P(context, "UPDATE_DATABASE", "database", id,
          Mutation_updateDatabase(Store, context, id, name, auditFails),
          Mutation_updateDatabase(Store, context, AbsentDatabaseId, name, auditFails))
    /\ \A context \in Contexts, id \in DatabaseIds, auditFails \in BOOLEAN :
        P(context, "DELETE_DATABASE", "database", id,
          Mutation_deleteDatabase(Store, context, id, auditFails),
          Mutation_deleteDatabase(Store, context, AbsentDatabaseId, auditFails))
    /\ \A context \in Contexts, id \in DatabaseIds, field \in FieldInputs,
          auditFails \in BOOLEAN :
        P(context, "CREATE_FIELD", "database", id,
          Mutation_createField(Store, context, id, field, auditFails),
          Mutation_createField(Store, context, AbsentDatabaseId, field, auditFails))
    /\ \A context \in Contexts, id \in DatabaseIds, fieldId \in FieldIds(Store),
          field \in FieldInputs, auditFails \in BOOLEAN :
        P(context, "UPDATE_FIELD", "database", id,
          Mutation_updateField(Store, context, id, fieldId, field, auditFails),
          Mutation_updateField(Store, context, AbsentDatabaseId, fieldId, field,
                               auditFails))
    /\ \A context \in Contexts, id \in DatabaseIds, fieldId \in FieldIds(Store),
          auditFails \in BOOLEAN :
        P(context, "DELETE_FIELD", "database", id,
          Mutation_deleteField(Store, context, id, fieldId, auditFails),
          Mutation_deleteField(Store, context, AbsentDatabaseId, fieldId, auditFails))
    /\ \A context \in Contexts, id \in DatabaseIds, values \in ValuesInputs,
          auditFails \in BOOLEAN :
        P(context, "CREATE_RECORD", "database", id,
          Mutation_createRecord(Store, context, id, values, auditFails),
          Mutation_createRecord(Store, context, AbsentDatabaseId, values, auditFails))
    /\ \A context \in Contexts, id \in RecordIds, values \in ValuesInputs,
          auditFails \in BOOLEAN :
        P(context, "UPDATE_RECORD", "record", id,
          Mutation_updateRecord(Store, context, id, values, auditFails),
          Mutation_updateRecord(Store, context, AbsentRecordId, values, auditFails))
    /\ \A context \in Contexts, id \in RecordIds, auditFails \in BOOLEAN :
        P(context, "DELETE_RECORD", "record", id,
          Mutation_deleteRecord(Store, context, id, auditFails),
          Mutation_deleteRecord(Store, context, AbsentRecordId, auditFails))

ForAllQueries(P(_, _, _, _, _, _)) ==
    /\ \A context \in Contexts :
        P(context, "databases", "none", 0,
          Query_databases(Store, context), Query_databases(Store, context))
    /\ \A context \in Contexts, id \in DatabaseIds :
        P(context, "database", "database", id,
          Query_database(Store, context, id),
          Query_database(Store, context, AbsentDatabaseId))
    /\ \A context \in Contexts, id \in DatabaseIds, a \in RecordsArgs :
        P(context, "records", "database", id,
          Query_records(Store, context, id, a.filter, a.sort, a.page, a.limit,
                        a.search),
          Query_records(Store, context, AbsentDatabaseId, a.filter, a.sort, a.page,
                        a.limit, a.search))
    /\ \A context \in Contexts, id \in RecordIds :
        P(context, "record", "record", id,
          Query_record(Store, context, id),
          Query_record(Store, context, AbsentRecordId))
    /\ \A context \in Contexts, limit \in LimitInputs, page \in PageInputs :
        P(context, "activityLogs", "none", 0,
          Query_activityLogs(Store, context, limit, page),
          Query_activityLogs(Store, context, limit, page))

\* The id names a document of the given kind that another tenant owns.
OwnedByOther(context, kind, id) ==
    \/ kind = "database" /\ \E d \in Range(databases) :
            d._id = id /\ d.tenantId # context.user.tenantId
    \/ kind = "record" /\ \E r \in Range(records) :
            r._id = id /\ r.tenantId # context.user.tenantId

\* S2 keeps every document of S that a tenant other than the caller's owns.
OthersUntouched(context, S, S2) ==
    /\ \A i \in 1..Len(S.databases) :
        S.databases[i].tenantId # context.user.tenantId
            => i <= Len(S2.databases) /\ S2.databases[i] = S.databases[i]
    /\ \A i \in 1..Len(S.records) :
        S.records[i].tenantId # context.user.tenantId
            => i <= Len(S2.records) /\ S2.records[i] = S.records[i]
    /\ \A i \in 1..Len(S.logs) :
        S.logs[i].tenantId # context.user.tenantId
            => i <= Len(S2.logs) /\ S2.logs[i] = S.logs[i]

\* The outcomes that say "not found": the not-found errors, null and the
\* empty list.
NotFoundOutcome(r) ==
    /\ r.ret = <<>>
    /\ \/ r.msg \in {"database_not_found", "record_not_found"}
       \/ r.err = "none"

\* The errors raised before the resolver looks the id up.
RejectedBeforeLookup(r) == r.msg \in {"not_authorized", "empty_name"}

Isolated(context, action, kind, id, r, rAbsent) ==
    ~NotLoggedIn(context) =>
        /\ OthersUntouched(context, Store, r.store)
        /\ \A doc \in Range(r.ret) : doc.tenantId = context.user.tenantId
        /\ OwnedByOther(context, kind, id) =>
            /\ r = rAbsent
            /\ r.store = Store
            /\ NotFoundOutcome(r) \/ RejectedBeforeLookup(r)

\* C1: tenant isolation. Whatever a logged-in principal calls, the
\* documents of the other tenants stay as they are and every returned document
\* is of the caller's tenant; a call with the id of another tenant's database
\* or record does exactly what it does for an id that no document has: it
\* writes nothing, returns no document, and ends not-found (the not-found
\* error, null or the empty list) unless the role or the name check, which
\* come before the lookup, has already rejected it.
C1_TenantIsolation == ForAllMutations(Isolated) /\ ForAllQueries(Isolated)

\* A state in which C1's case arises: tenant 2 owns a database and a record
\* in it, tenant 1 has activity of its own, and the Admin of tenant 1 asks
\* for both by id.
C1_Witness ==
    /\ \E d \in Range(databases) : d.tenantId = 2
    /\ \E r \in Range(records) : r.tenantId = 2
    /\ \E l \in Range(logs) : l.tenantId = 1
    /\ \E d \in Range(databases), r \in Range(records) :
        /\ d.tenantId = 2 /\ r.tenantId = 2
        /\ Query_database(Store, [user |-> [_id |-> 1, tenantId |-> 1, role |-> "Admin"]],
                          d._id).msg = "database_not_found"
        /\ Mutation_updateRecord(Store,
                [user |-> [_id |-> 1, tenantId |-> 1, role |-> "Admin"]],
                r._id, <<[field |-> "Email", value |-> "a"]>>, FALSE).msg
             = "record_not_found"

(***************************************************************************)
(* C2: the role matrix.                                                    *)
(***************************************************************************)
DatabaseOrFieldActions ==
    {"CREATE_DATABASE", "UPDATE_DATABASE", "DELETE_DATABASE",
     "CREATE_FIELD", "UPDATE_FIELD", "DELETE_FIELD"}

RecordActions == {"CREATE_RECORD", "UPDATE_RECORD", "DELETE_RECORD"}

\* The id names a document of the given kind that the caller's tenant owns.
OwnedByCaller(context, kind, id) ==
    \/ kind = "database" /\ \E d \in Range(databases) :
            d._id = id /\ d.tenantId = context.user.tenantId
    \/ kind = "record" /\ \E r \in Range(records) :
            r._id = id /\ r.tenantId = context.user.tenantId

RoleMatrixOfMutation(context, action, kind, id, r, rAbsent) ==
    /\ context.user.role = "Viewer" =>
        r.err = "ForbiddenError" /\ r.msg = "not_authorized" /\ r.store = Store
    /\ context.user.role = "Editor" /\ action \in DatabaseOrFieldActions =>
        r.err = "ForbiddenError" /\ r.msg = "not_authorized" /\ r.store = Store
    /\ action \in DatabaseOrFieldActions /\ (r.err = "none" \/ r.store # Store) =>
        context.user.role = "Admin"
    /\ context.user.role = "Editor" /\ action \in RecordActions =>
        /\ r.msg # "not_authorized"
        /\ OwnedByCaller(context, kind, id) /\ r.msg # "audit_failed" => r.err = "none"

RoleMatrixOfQuery(context, action, kind, id, r, rAbsent) ==
    context.user.role = "Viewer" =>
        /\ r.err # "ForbiddenError"
        /\ action # "database" => r.err = "none"
        /\ action = "database" => r.err = "none" \/ r.msg = "database_not_found"

\* C2: every mutation a Viewer issues fails Forbidden and writes nothing,
\* while its queries are answered; every database or field mutation an Editor
\* issues fails Forbidden and writes nothing, while its record mutations are
\* never refused for the role and succeed on the documents of its tenant; a
\* database or field mutation that succeeds or writes was issued by an Admin.
C2_RoleMatrix ==
    ForAllMutations(RoleMatrixOfMutation) /\ ForAllQueries(RoleMatrixOfQuery)

\* The Editor of tenant 1 has created a record; the Viewer sees the database
\* and the record, and is refused deleteRecord; the Editor is refused
\* deleteDatabase.
C2_Witness ==
    /\ \E l \in Range(logs) : l.userId = 2 /\ l.action = "CREATE_RECORD"
    /\ \E d \in Range(databases), rec \in Range(records) :
        LET viewer == [user |-> [_id |-> 3, tenantId |-> 1, role |-> "Viewer"]]
            editor == [user |-> [_id |-> 2, tenantId |-> 1, role |-> "Editor"]]
        IN /\ Query_database(Store, viewer, d._id).ret = <<d>>
           /\ Query_records(Store, viewer, d._id, <<>>, <<>>, <<>>, <<>>, <<>>).ret
                = <<rec>>
           /\ Mutation_deleteRecord(Store, viewer, rec._id, FALSE).err = "ForbiddenError"
           /\ Mutation_deleteDatabase(Store, editor, d._id, FALSE).err = "ForbiddenError"

(***************************************************************************)
(* C3: the audit log.                                                      *)
(***************************************************************************)
AuditedOnce(context, action, kind, id, r, rAbsent) ==
    IF r.err = "none"
    THEN /\ Len(r.store.logs) = Len(logs) + 1
         /\ SubSeq(r.store.logs, 1, Len(logs)) = logs
         /\ LET entry == r.store.logs[Len(r.store.logs)]
            IN /\ entry.action = action
               /\ entry.tenantId = context.user.tenantId
               /\ entry.userId = context.user._id
    ELSE r.store.logs = logs

LogsKept(context, action, kind, id, r, rAbsent) == r.store.logs = logs

\* C3: a mutating call that succeeds appends exactly one entry to the
\* ActivityLog, with the action tag of the operation and the caller's tenant
\* and user ids, and leaves the entries before it as they were; a mutating
\* call that fails, and every query, leaves the ActivityLog as it was.
C3_AuditLog == ForAllMutations(AuditedOnce) /\ ForAllQueries(LogsKept)

\* Two mutations have been logged, and a third call, createDatabase with a
\* name the tenant already uses, fails with the conflict.
C3_Witness ==
    /\ Len(logs) >= 2
    /\ \E context \in Contexts, name \in DbNames :
        Mutation_createDatabase(Store, context, name, FALSE).msg = "name_exists"

(***************************************************************************)
(* C4: createRecord drops the keys that are no field, updateRecord keeps   *)
(* them.                                                                   *)
(***************************************************************************)
FieldNamesOf(database) == {f.name : f \in Range(database.fields)}

\* C4: createRecord by an Editor or Admin on a database of the tenant
\* succeeds whatever keys the input has, and the record it stores holds no
\* input key that is not the name of a field of the database; updateRecord
\* stores every input key with its value, a key that is no field of the
\* record's database included.
C4_CreateDropsUpdateKeeps ==
    /\ \A context \in Contexts, d \in Range(databases), values \in ValuesInputs :
        LET r == Mutation_createRecord(Store, context, d._id, values, FALSE) IN
        ~NotEditorOrAdmin(context) /\ d.tenantId = context.user.tenantId =>
            /\ r.err = "none"
            /\ r.store.records = Append(records, r.ret[1])
            /\ \A i \in 1..Len(values) :
                values[i].field \notin FieldNamesOf(d)
                    => ~MapHas(r.ret[1].values, values[i].field)
    /\ \A context \in Contexts, rec \in Range(records), values \in ValuesInputs :
        LET r == Mutation_updateRecord(Store, context, rec._id, values, FALSE) IN
        r.err = "none" =>
            \A i \in 1..Len(values) :
                /\ MapHas(r.store.records[rec._id].values, values[i].field)
                /\ MapGet(r.store.records[rec._id].values, values[i].field)
                     = values[i].value

\* A database holds a record made by createRecord, that record has got the
\* key "extra", which is no field of the database, by updateRecord, and a
\* createRecord with the same key stores a record without it.
C4_Witness ==
    /\ \E l \in Range(logs) : l.action = "UPDATE_RECORD"
    /\ \E d \in Range(databases), rec \in Range(records) :
        /\ rec.databaseId = d._id
        /\ "extra" \notin FieldNamesOf(d)
        /\ MapHas(rec.values, "extra")
        /\ \E values \in ValuesInputs :
            /\ MapHas(values, "extra")
            /\ ~MapHas(Mutation_createRecord(Store,
                    [user |-> [_id |-> 1, tenantId |-> d.tenantId, role |-> "Admin"]],
                    d._id, values, FALSE).ret[1].values, "extra")

(***************************************************************************)
(* C5: pagination of Query.records (under SpecPage).                       *)
(***************************************************************************)
\* The pages 1..n of the client's query, one after the other.
RECURSIVE PagesUpTo(_, _, _)
PagesUpTo(context, a, n) ==
    IF n = 0 THEN <<>>
    ELSE PagesUpTo(context, a, n - 1)
         \o Query_records(Store, context, 1, a.filter, a.sort, <<n>>, a.limit,
                          a.search).ret

\* C5: with p the given page, or 1 when it is unset or not positive, and l
\* the given limit, or 20 when it is unset or not positive, the answer to a
\* logged-in caller is no error but the elements (p-1)*l+1 .. min(p*l, N) of
\* the N matched and sorted records, the empty sequence when the page lies
\* past the end; the pages 1, 2, ... share no record and, one after the
\* other, make up the N records.
C5_Pagination ==
    reply.err # "no_call" /\ ~NotLoggedIn(reply.context) =>
        LET a == reply.args
            sorted == MatchedAndSorted(Store, reply.context, 1, a.filter, a.sort,
                                       a.search)
            N == Len(sorted)
            p == IF a.page = <<>> THEN 1 ELSE IF a.page[1] <= 0 THEN 1 ELSE a.page[1]
            l == IF a.limit = <<>> THEN 20 ELSE IF a.limit[1] <= 0 THEN 20 ELSE a.limit[1]
            upTo == IF p * l < N THEN p * l ELSE N
            pages == (N \div l) + 1
            pageOf(q) == Query_records(Store, reply.context, 1, a.filter, a.sort,
                                       <<q>>, a.limit, a.search).ret
        IN /\ reply.err = "none"
           /\ Len(reply.ret) = (IF upTo >= (p - 1) * l THEN upTo - (p - 1) * l ELSE 0)
           /\ \A i \in 1..Len(reply.ret) : reply.ret[i] = sorted[(p - 1) * l + i]
           /\ (p - 1) * l >= N => reply.ret = <<>>
           /\ PagesUpTo(reply.context, a, pages) = sorted
           /\ \A q1 \in 1..pages, q2 \in 1..pages :
                q1 # q2 => Range(pageOf(q1)) \cap Range(pageOf(q2)) = {}

\* 25 records, limit 10, page 3: the client holds the records 21 to 25.
C5_Witness ==
    /\ Len(records) = 25
    /\ reply.args.page = <<3>> /\ reply.args.limit = <<10>> /\ reply.args.sort = <<>>
    /\ reply.ret = SubSeq(records, 21, 25)

(***************************************************************************)
(* C6: field names are unique ignoring case.                               *)
(***************************************************************************)
EqualIgnoringCase(a, b) == ToLowerCase(a) = ToLowerCase(b)

\* C6: no database holds two fields whose names are equal ignoring case;
\* createField with a name that equals, ignoring case, the name of a field of
\* the database fails with the conflict and writes nothing, and so does
\* updateField when another field has the new name; an updateField that
\* succeeds leaves the list of fields as long as it was, with the same id at
\* every position, the attributes of the updated field replaced and the other
\* fields as they were.
C6_FieldNamesUnique ==
    /\ \A d \in Range(databases) : \A i, j \in 1..Len(d.fields) :
        i # j => ~EqualIgnoringCase(d.fields[i].name, d.fields[j].name)
    /\ \A context \in Contexts, d \in Range(databases), field \in FieldInputs,
          auditFails \in BOOLEAN :
        LET r == Mutation_createField(Store, context, d._id, field, auditFails) IN
        /\ ~NotAdmin(context) /\ d.tenantId = context.user.tenantId
        /\ \E f \in Range(d.fields) : EqualIgnoringCase(f.name, field.name)
        => r.err = "UserInputError" /\ r.msg = "field_exists" /\ r.store = Store
    /\ \A context \in Contexts, d \in Range(databases), field \in FieldInputs,
          auditFails \in BOOLEAN :
        \A k \in 1..Len(d.fields) :
            LET r == Mutation_updateField(Store, context, d._id, d.fields[k]._id,
                                          field, auditFails)
                after == r.store.databases[d._id].fields
            IN
            /\ /\ ~NotAdmin(context) /\ d.tenantId = context.user.tenantId
               /\ \E j \in 1..Len(d.fields) :
                    j # k /\ EqualIgnoringCase(d.fields[j].name, field.name)
               => r.err = "UserInputError" /\ r.msg = "field_exists" /\ r.store = Store
            /\ r.err = "none" =>
                /\ Len(after) = Len(d.fields)
                /\ \A j \in 1..Len(after) : after[j]._id = d.fields[j]._id
                /\ after[k].name = field.name /\ after[k].type = field.type
                /\ \A j \in 1..Len(after) : j # k => after[j] = d.fields[j]

\* A database has the fields Email and Name: createField "email" and the
\* update of Name to "email" meet the conflict, the update of Email to
\* "email" goes through.
C6_Witness ==
    \E d \in Range(databases) :
        LET admin == [user |-> [_id |-> 1, tenantId |-> 1, role |-> "Admin"]]
            lower == [name |-> "email", type |-> "number"]
        IN /\ d.tenantId = 1 /\ Len(d.fields) = 2
           /\ d.fields[1].name = "Email" /\ d.fields[2].name = "Name"
           /\ Mutation_createField(Store, admin, d._id, lower, FALSE).msg = "field_exists"
           /\ Mutation_updateField(Store, admin, d._id, d.fields[2]._id, lower,
                                   FALSE).msg = "field_exists"
           /\ Mutation_updateField(Store, admin, d._id, d.fields[1]._id, lower,
                                   FALSE).err = "none"

(***************************************************************************)
(* C7: deleteDatabase is a soft delete and does not cascade.               *)
(***************************************************************************)
\* C7: a deleteDatabase(id) that succeeds leaves the database in the store
\* with isDeleted set and nothing else changed; the caller's Query.databases
\* no longer lists it; the records are all as they were, and every record of
\* that database is still what Query.record returns for its id to the users
\* of the tenant.
C7_SoftDeleteNoCascade ==
    \A context \in Contexts, d \in Range(databases) :
        LET r == Mutation_deleteDatabase(Store, context, d._id, FALSE) IN
        r.err = "none" =>
            /\ r.store.databases = Replace(databases, [d EXCEPT !.isDeleted = TRUE])
            /\ \A x \in Range(Query_databases(r.store, context).ret) : x._id # d._id
            /\ r.store.records = records
            /\ \A rec \in Range(records), reader \in Contexts :
                rec.databaseId = d._id /\ reader.user.tenantId = rec.tenantId =>
                    Query_record(r.store, reader, rec._id).ret = <<rec>>

\* deleteDatabase was the last mutation: the database is flagged, a record
\* of it is not, the listing of the tenant does not show the database, and
\* the Viewer of the tenant gets the record by its id.
C7_Witness ==
    /\ logs # <<>> /\ logs[Len(logs)].action = "DELETE_DATABASE"
    /\ \E d \in Range(databases), rec \in Range(records) :
        LET viewer == [user |-> [_id |-> 3, tenantId |-> 1, role |-> "Viewer"]] IN
        /\ d.isDeleted /\ d.tenantId = 1
        /\ rec.databaseId = d._id /\ ~rec.isDeleted
        /\ Query_databases(Store, viewer).ret = <<>>
        /\ Query_record(Store, viewer, rec._id).ret = <<rec>>

(***************************************************************************)
(* C8: what Query.database does when it finds no database.                 *)
(***************************************************************************)
\* No database with this id is visible to the caller: the id is absent, the
\* database is another tenant's, or it is soft-deleted.
NoDatabaseFor(context, id) ==
    ~\E d \in Range(databases) :
        d._id = id /\ d.tenantId = context.user.tenantId /\ ~d.isDeleted

\* C8 as stated: for a logged-in caller Query.database returns null and
\* raises no error whenever no database with the id is found for the caller.
C8_AsStated_ReturnsNull ==
    \A context \in Contexts, id \in DatabaseIds :
        ~NotLoggedIn(context) /\ NoDatabaseFor(context, id) =>
            LET r == Query_database(Store, context, id) IN
            r.err = "none" /\ r.ret = <<>>

\* C8 as amended: for a logged-in caller Query.database raises the not-found
\* Error, returns no document and writes nothing whenever no database with
\* the id is found for the caller (id absent, owned by another tenant, or
\* soft-deleted); it never returns null.
C8_ThrowsNotFound ==
    \A context \in Contexts, id \in DatabaseIds :
        LET r == Query_database(Store, context, id) IN
        ~NotLoggedIn(context) =>
            /\ NoDatabaseFor(context, id) =>
                /\ r.err = "Error" /\ r.msg = "database_not_found"
                /\ r.ret = <<>>
                /\ r.store = Store
            /\ r.err = "none" => Len(r.ret) = 1

\* Tenant 1 has a soft-deleted database, tenant 2 has a database, one id is
\* absent: the Admin of tenant 1 gets the not-found Error for all three.
C8_Witness ==
    \E d1 \in Range(databases), d2 \in Range(databases) :
        LET admin == [user |-> [_id |-> 1, tenantId |-> 1, role |-> "Admin"]] IN
        /\ d1.tenantId = 1 /\ d1.isDeleted
        /\ d2.tenantId = 2 /\ ~d2.isDeleted
        /\ \A id \in {d1._id, d2._id, AbsentDatabaseId} :
            Query_database(Store, admin, id).msg = "database_not_found"

(***************************************************************************)
(* C9: updateDatabase and soft-deleted databases.                          *)
(***************************************************************************)
\* C9 as stated: updateDatabase(id, name) fails, with NotFound when the
\* caller is an Admin and the name is not blank, and changes nothing when
\* the database with that id is absent, is not owned by the caller's tenant
\* or has been soft-deleted.
C9_UpdateOfDeletedIsNotFound ==
    \A context \in Contexts, id \in DatabaseIds, name \in DbNames,
       auditFails \in BOOLEAN :
        LET r == Mutation_updateDatabase(Store, context, id, name, auditFails) IN
        ~NotLoggedIn(context) /\ NoDatabaseFor(context, id) =>
            /\ r.err # "none"
            /\ r.store = Store
            /\ ~NotAdmin(context) /\ Trim(name) # "" => r.msg = "database_not_found"

(***************************************************************************)
(* C10: validation and authorization errors come before any write.         *)
(***************************************************************************)
\* The throw sites of AuthenticationRequired, Forbidden, InvalidInput,
\* NotFound and of the conflict on a field name.
ValidationErrors ==
    {"must_log_in", "not_authorized", "empty_name", "database_not_found",
     "record_not_found", "field_not_found", "field_exists"}

WritesNothing(context, action, kind, id, r, rAbsent) ==
    r.msg \in ValidationErrors => r.store = Store

\* C10: a mutating call that ends with a validation or authorization error
\* leaves the databases, their fields, the records and the ActivityLog as
\* they were before the call.
C10_ErrorsBeforeWrites == ForAllMutations(WritesNothing)

\* The store holds a database with a field and a record, and calls of the
\* Admin meet the field-name conflict, the missing field and the missing
\* record there.
C10_Witness ==
    \E d \in Range(databases), rec \in Range(records) :
        LET admin == [user |-> [_id |-> 1, tenantId |-> 1, role |-> "Admin"]] IN
        /\ d.tenantId = 1 /\ rec.tenantId = 1 /\ d.fields # <<>>
        /\ \E field \in FieldInputs :
            Mutation_createField(Store, admin, d._id, field, FALSE).msg = "field_exists"
        /\ Mutation_deleteField(Store, admin, d._id, nextFieldId, FALSE).msg
             = "field_not_found"
        /\ Mutation_deleteRecord(Store, admin, AbsentRecordId, FALSE).msg
             = "record_not_found"

(***************************************************************************)
(* C11: what a failing ActivityLog.create does to the mutation.            *)
(***************************************************************************)
\* Every mutating call, once with ActivityLog.create accepted (logged) and
\* once with it rejected (unlogged).
ForAllAuditFailures(P(_, _)) ==
    /\ \A context \in Contexts, name \in DbNames :
        P(Mutation_createDatabase(Store, context, name, FALSE),
          Mutation_createDatabase(Store, context, name, TRUE))
    /\ \A context \in Contexts, id \in DatabaseIds, name \in DbNames :
        P(Mutation_updateDatabase(Store, context, id, name, FALSE),
          Mutation_updateDatabase(Store, context, id, name, TRUE))
    /\ \A context \in Contexts, id \in DatabaseIds :
        P(Mutation_deleteDatabase(Store, context, id, FALSE),
          Mutation_deleteDatabase(Store, context, id, TRUE))
    /\ \A context \in Contexts, id \in DatabaseIds, field \in FieldInputs :
        P(Mutation_createField(Store, context, id, field, FALSE),
          Mutation_createField(Store, context, id, field, TRUE))
    /\ \A context \in Contexts, id \in DatabaseIds, fieldId \in FieldIds(Store),
          field \in FieldInputs :
        P(Mutation_updateField(Store, context, id, fieldId, field, FALSE),
          Mutation_updateField(Store, context, id, fieldId, field, TRUE))
    /\ \A context \in Contexts, id \in DatabaseIds, fieldId \in FieldIds(Store) :
        P(Mutation_deleteField(Store, context, id, fieldId, FALSE),
          Mutation_deleteField(Store, context, id, fieldId, TRUE))
    /\ \A context \in Contexts, id \in DatabaseIds, values \in ValuesInputs :
        P(Mutation_createRecord(Store, context, id, values, FALSE),
          Mutation_createRecord(Store, context, id, values, TRUE))
    /\ \A context \in Contexts, id \in RecordIds, values \in ValuesInputs :
        P(Mutation_updateRecord(Store, context, id, values, FALSE),
          Mutation_updateRecord(Store, context, id, values, TRUE))
    /\ \A context \in Contexts, id \in RecordIds :
        P(Mutation_deleteRecord(Store, context, id, FALSE),
          Mutation_deleteRecord(Store, context, id, TRUE))

\* The primary write went through (the call succeeds when the entry is
\* appended): with the append failing, the caller still gets the successful
\* result and the primary write is persisted.
AuditIsBestEffort(logged, unlogged) ==
    logged.err = "none" =>
        /\ unlogged.err = "none"
        /\ unlogged.ret = logged.ret
        /\ unlogged.store.databases = logged.store.databases
        /\ unlogged.store.records = logged.store.records

\* C11 as stated: if appending the ActivityLog entry fails after the primary
\* write of a mutation has succeeded, the failure is not propagated to the
\* caller: the mutation returns its successful result and the primary write
\* stays persisted.
C11_AuditFailureNotPropagated == ForAllAuditFailures(AuditIsBestEffort)

(***************************************************************************)
(* C12: the context function fails soft.                                   *)
(***************************************************************************)
\* The credentials that identify nobody: missing, rejected by jwt.verify, or
\* accepted but naming a user the collection no longer has.
IdentifiesNobody(token) ==
    \/ token.kind \in {"missing", "invalid", "expired"}
    \/ token.kind = "valid" /\ ~\E u \in Users : u._id = token.id

AnonymousRejected(context, action, kind, id, r, rAbsent) ==
    context = [user |-> NoUser] =>
        r.err = "AuthenticationError" /\ r.msg = "must_log_in" /\ r.store = Store

\* C12: context resolution raises no error for any credential; a credential
\* that is missing, invalid, expired or names a user that no longer exists
\* yields the anonymous context, and every mutation and query called with the
\* anonymous context fails with the authentication error and writes nothing;
\* a valid credential of a stored user yields that user as stored, with the
\* stored role and tenant whatever the claims of the token say.
C12_AuthenticateFailsSoft ==
    /\ \A token \in Tokens :
        /\ Context(token).err = "none"
        /\ IdentifiesNobody(token) => Context(token).context = [user |-> NoUser]
        /\ ~IdentifiesNobody(token) =>
            \E u \in Users :
                /\ u._id = token.id
                /\ Context(token).context.user = u
                /\ Context(token).context.user.role = u.role
                /\ Context(token).context.user.tenantId = u.tenantId
    /\ ForAllMutations(AnonymousRejected)
    /\ ForAllQueries(AnonymousRejected)

\* Tenant 1 has a database. The token of the removed user 5, with the claims
\* of an Admin of tenant 1, lists nothing and is told to log in; the token of
\* the Viewer (user 3) claiming to be Admin of tenant 2 lists the database of
\* tenant 1 and is refused createDatabase for its role.
C12_Witness ==
    LET stale == [kind |-> "valid", id |-> 5, role |-> "Admin", tenantId |-> 1]
        forged == [kind |-> "valid", id |-> 3, role |-> "Admin", tenantId |-> 2]
    IN /\ \E d \in Range(databases) : d.tenantId = 1 /\ ~d.isDeleted
       /\ Query_databases(Store, Context(stale).context).msg = "must_log_in"
       /\ Query_databases(Store, Context(forged).context).ret # <<>>
       /\ Mutation_createDatabase(Store, Context(forged).context, "A", FALSE).msg
            = "not_authorized"

(***************************************************************************)
(* C13: the $match stage of Query.records (under SpecList).                *)
(***************************************************************************)
\* C13: whatever filter, sort, search, page and limit the caller supplies,
\* every record of the answer has the databaseId asked for, the tenantId of
\* the caller and isDeleted false; the answer is what the stages give when
\* applied in the order match, search, filter, sort, skip, limit.
C13_MatchStageFirst ==
    reply.err # "no_call" =>
        LET a == reply.args
            limitNum == LimitNum(a.limit, 20)
            matched == MatchStage(records, a.databaseId, reply.context)
            searched == SearchStage(Store, matched, a.databaseId, a.search)
            filtered == FilterStage(searched, a.filter)
            sorted == SortStage(filtered, a.sort)
            skipped == SkipStage(sorted, SkipNum(PageNum(a.page), limitNum))
        IN /\ reply.err = "none"
           /\ \A r \in Range(reply.ret) :
                /\ r.databaseId = a.databaseId
                /\ r.tenantId = reply.context.user.tenantId
                /\ r.isDeleted = FALSE
           /\ \A r \in Range(reply.ret) : \E i \in 1..Len(records) : records[i] = r
           /\ reply.ret = LimitStage(skipped, limitNum)

\* The first record of the store is not for the caller (it is soft-deleted
\* or belongs to tenant 2); the Viewer of tenant 1 asked for database 1
\* sorted descending with limit 1 and got one record, which is not the first
\* live record of the database: the sort came before the limit.
C13_Witness ==
    /\ reply.err = "none"
    /\ reply.context.user.tenantId = 1
    /\ reply.args.databaseId = 1
    /\ reply.args.sort # <<>> /\ reply.args.limit = <<1>>
    /\ reply.args.page = <<>> /\ reply.args.filter = <<>> /\ reply.args.search = <<>>
    /\ records # <<>> /\ (records[1].isDeleted \/ records[1].tenantId = 2)
    /\ Len(reply.ret) = 1
    /\ reply.ret[1] # MatchStage(records, 1, reply.context)[1]

(***************************************************************************)
(* C14: updateRecord merges the input into the stored values.              *)
(***************************************************************************)
KeysOf(m) == {m[i].field : i \in 1..Len(m)}

\* C14: after an updateRecord(id, values) that succeeds, every key of the
\* input maps to the value of the input, every key the record had that is
\* not in the input maps to the value it had, no key is gone and no other
\* key has come; tenantId, databaseId and isDeleted of the record are as
\* before, and the returned record is the stored one.
C14_UpdateRecordMerges ==
    \A context \in Contexts, rec \in Range(records), values \in ValuesInputs :
        LET r == Mutation_updateRecord(Store, context, rec._id, values, FALSE)
            after == r.store.records[rec._id]
        IN r.err = "none" =>
            /\ \A i \in 1..Len(values) :
                /\ MapHas(after.values, values[i].field)
                /\ MapGet(after.values, values[i].field) = values[i].value
            /\ \A key \in KeysOf(rec.values) \ KeysOf(values) :
                /\ MapHas(after.values, key)
                /\ MapGet(after.values, key) = MapGet(rec.values, key)
            /\ KeysOf(after.values) = KeysOf(rec.values) \cup KeysOf(values)
            /\ Len(after.values) = Cardinality(KeysOf(after.values))
            /\ after._id = rec._id
            /\ after.tenantId = rec.tenantId
            /\ after.databaseId = rec.databaseId
            /\ after.isDeleted = rec.isDeleted
            /\ r.ret = <<after>>

\* updateRecord was the last mutation and the record has the key Email: a
\* further update with the key "extra" alone keeps Email and adds "extra", an
\* update with both keys overwrites Email.
C14_Witness ==
    /\ logs # <<>> /\ logs[Len(logs)].action = "UPDATE_RECORD"
    /\ \E rec \in Range(records) :
        LET editor == [user |-> [_id |-> 2, tenantId |-> 1, role |-> "Editor"]]
            added == Mutation_updateRecord(Store, editor, rec._id,
                        <<[field |-> "extra", value |-> "b"]>>, FALSE)
            both == Mutation_updateRecord(Store, editor, rec._id,
                        <<[field |-> "extra", value |-> "a"],
                          [field |-> "Email", value |-> "A"]>>, FALSE)
        IN /\ MapHas(rec.values, "Email") /\ MapGet(rec.values, "Email") = "a"
           /\ added.err = "none"
           /\ MapGet(added.store.records[rec._id].values, "Email") = "a"
           /\ MapGet(added.store.records[rec._id].values, "extra") = "b"
           /\ both.err = "none"
           /\ MapGet(both.store.records[rec._id].values, "Email") = "A"

(***************************************************************************)
(* C15: deleteRecord is a soft delete.                                     *)
(***************************************************************************)
\* No call of Query.records on store S returns the record with this id.
NeverListed(S, id) ==
    \A reader \in Contexts, databaseId \in DatabaseIds, a \in RecordsArgs :
        \A x \in Range(Query_records(S, reader, databaseId, a.filter, a.sort,
                                     a.page, a.limit, a.search).ret) :
            x._id # id

\* Query.record on store S returns the record to every user of its tenant.
LookedUp(S, rec) ==
    \A reader \in Contexts :
        reader.user.tenantId = rec.tenantId =>
            Query_record(S, reader, rec._id).ret = <<rec>>

\* C15: deleteRecord(id) by an Editor or Admin fails with the not-found error
\* and writes nothing when the caller's tenant has no record with that id;
\* when it succeeds, the record is still stored, with isDeleted set and
\* nothing else changed, and the other records are as they were; from then
\* on (in every state, for every soft-deleted record) no Query.records call
\* returns the record, while Query.record(id) returns it to every user of
\* its tenant.
C15_RecordSoftDelete ==
    /\ \A context \in Contexts, id \in RecordIds :
        LET r == Mutation_deleteRecord(Store, context, id, FALSE) IN
        /\ /\ ~NotEditorOrAdmin(context)
           /\ ~\E rec \in Range(records) :
                rec._id = id /\ rec.tenantId = context.user.tenantId
           => r.err = "UserInputError" /\ r.msg = "record_not_found" /\ r.store = Store
        /\ r.err = "none" =>
            \E rec \in Range(records) :
                /\ rec._id = id /\ rec.tenantId = context.user.tenantId
                /\ r.store.records = Replace(records, [rec EXCEPT !.isDeleted = TRUE])
                /\ NeverListed(r.store, id)
                /\ LookedUp(r.store, [rec EXCEPT !.isDeleted = TRUE])
    /\ \A rec \in Range(records) :
        rec.isDeleted => NeverListed(Store, rec._id) /\ LookedUp(Store, rec)

\* deleteRecord was the last mutation: the database of tenant 1 has one
\* record, soft-deleted; the Viewer of the tenant lists no record of the
\* database and still gets the record by its id.
C15_Witness ==
    /\ logs # <<>> /\ logs[Len(logs)].action = "DELETE_RECORD"
    /\ \E rec \in Range(records) :
        LET viewer == [user |-> [_id |-> 3, tenantId |-> 1, role |-> "Viewer"]] IN
        /\ rec.isDeleted /\ rec.tenantId = 1
        /\ \E d \in Range(databases) : d._id = rec.databaseId /\ ~d.isDeleted
        /\ Query_records(Store, viewer, rec.databaseId, <<>>, <<>>, <<>>, <<>>,
                         <<>>).ret = <<>>
        /\ Query_record(Store, viewer, rec._id).ret = <<rec>>

(***************************************************************************)
(* C16: field names under concurrent calls (under SpecRace).               *)
(***************************************************************************)
\* C16 as stated: whatever the interleaving of the steps of concurrent
\* createField and updateField calls on a database, no reachable state has a
\* database whose field list holds two fields with names equal ignoring case.
C16_UniqueUnderConcurrency ==
    \A d \in Range(databases) : \A i, j \in 1..Len(d.fields) :
        i # j => ToLowerCase(d.fields[i].name) # ToLowerCase(d.fields[j].name)

(***************************************************************************)
(* C17: database names are unique per tenant, soft-deleted ones included.  *)
(***************************************************************************)
\* C17: no two stored databases of one tenant, soft-deleted or not, have the
\* same name; createDatabase with the name of a soft-deleted database of the
\* caller's tenant fails with the conflict and writes nothing, and so does
\* updateDatabase of another database of the tenant to that name; a name
\* that only other tenants use is no conflict.
C17_NameUniqueAcrossSoftDeleted ==
    /\ \A i, j \in 1..Len(databases) :
        i # j /\ databases[i].tenantId = databases[j].tenantId
            => databases[i].name # databases[j].name
    /\ \A context \in Contexts, name \in DbNames, gone \in Range(databases),
          auditFails \in BOOLEAN :
        /\ ~NotAdmin(context)
        /\ gone.tenantId = context.user.tenantId /\ gone.isDeleted /\ gone.name = name
        =>
        /\ LET r == Mutation_createDatabase(Store, context, name, auditFails) IN
           r.err = "UserInputError" /\ r.msg = "name_exists" /\ r.store = Store
        /\ \A other \in Range(databases) :
            other._id # gone._id /\ other.tenantId = context.user.tenantId =>
                LET r == Mutation_updateDatabase(Store, context, other._id, name,
                                                 auditFails)
                IN r.err = "UserInputError" /\ r.msg = "name_exists" /\ r.store = Store
    /\ \A context \in Contexts, name \in DbNames :
        /\ ~NotAdmin(context) /\ Trim(name) # ""
        /\ ~\E d \in Range(databases) :
                d.tenantId = context.user.tenantId /\ d.name = name
        => Mutation_createDatabase(Store, context, name, FALSE).err = "none"

\* Tenant 1 has soft-deleted its database "A" and tenant 2 holds a database
\* "A": createDatabase("A") of the Admin of tenant 1 meets the conflict.
C17_Witness ==
    LET admin == [user |-> [_id |-> 1, tenantId |-> 1, role |-> "Admin"]] IN
    /\ \E d \in Range(databases) : d.tenantId = 1 /\ d.name = "A" /\ d.isDeleted
    /\ \E d \in Range(databases) : d.tenantId = 2 /\ d.name = "A" /\ ~d.isDeleted
    /\ Mutation_createDatabase(Store, admin, "A", FALSE).msg = "name_exists"
    /\ Mutation_createDatabase(Store, admin, "a", FALSE).err = "none"

(***************************************************************************)
(* C18: soft deletion is permanent, and nothing is removed.                *)
(***************************************************************************)
\* Every document of the collection is in the collection after the step,
\* under the same _id, and soft-deleted if it was.
Kept(coll, collAfter) ==
    \A d \in Range(coll) :
        \E e \in Range(collAfter) :
            /\ e._id = d._id
            /\ d.isDeleted => e.isDeleted

====
